---- MODULE Spec2Model ----
(***************************************************************************)
(* Control points managers of geomdl/control_points.py: AbstractManager    *)
(* and its three subclasses CurveManager, SurfaceManager, VolumeManager.   *)
(*                                                                         *)
(* Python objects are modelled as a heap.  A manager holds a reference     *)
(* (_points) to a list object; a list object holds references to the       *)
(* coordinate lists stored in its slots.  Object identities are addresses: *)
(* after every operation the heap is renumbered in first-reach order, so   *)
(* that states equal up to the choice of addresses are one state, and      *)
(* unreachable objects are dropped.                                        *)
(***************************************************************************)
EXTENDS Integers, Sequences, FiniteSets

VARIABLES
    size,       \* size[m]: the manager's _size (<< >> while m does not exist)
    pts,        \* pts[m]: the list object _points refers to (0: m does not exist)
    iterIndex,  \* iterIndex[m]: _iter_index (-1: the attribute is not set yet)
    lists,      \* lists[l]: the list object l, a sequence of point references
    coords,     \* coords[p]: the coordinate list object p, a sequence of elements
    origin,     \* origin[m]: how m came to be ("new", "copy", "deepcopy"), from whom,
                \* and the sizes given when it (or its original) was constructed
    last,       \* the last call: operation, receiver, arguments' outcome
    linSize,    \* linearization study: the sizes
    linArgs,    \* linearization study: the multi-index applied
    linOff      \* linearization study: the offset computed (-1: none yet)

vars == <<size, pts, iterIndex, lists, coords, origin, last, linSize, linArgs, linOff>>

(***************************************************************************)
(* Bounds of the model.                                                    *)
(***************************************************************************)
MaxMgr == 2      \* managers alive at once (the first one and its copies)
MaxTotal == 2    \* largest product of sizes of a constructed manager
MaxDim == 3      \* largest size per dimension in the linearization study

Mgrs == 1..MaxMgr

\* Elements of a coordinate list: a number, or something that is not a number.
Numbers == {"1"}
NonNumbers == {"x"}
Elems == Numbers \cup NonNumbers

\* Contents a coordinate list can have: the empty placeholder [], a list of
\* numbers, a list holding something else.
Contents == {<< >>} \cup {<<e>> : e \in Elems}

\* Longest whole-collection list a caller hands over.
MaxLen == MaxTotal

Max(a, b) == IF a >= b THEN a ELSE b

Range(s) == {s[i] : i \in DOMAIN s}

(***************************************************************************)
(* reduce(lambda x, y: x * y, self._size)                                  *)
(***************************************************************************)
RECURSIVE Product(_)
Product(sz) == IF Len(sz) = 1 THEN sz[1] ELSE Product(SubSeq(sz, 1, Len(sz) - 1)) * sz[Len(sz)]

(***************************************************************************)
(* The index expressions of get_ctrlpt / set_ctrlpt.  Python's args[0],    *)
(* args[1], args[2] are a[1], a[2], a[3] here.                             *)
(***************************************************************************)
CurveOffset(sz, a) == a[1]

SurfaceOffsetSwapped(sz, a) == a[1] + (a[2] * sz[2])
SurfaceOffset(sz, a) == a[2] + (a[1] * sz[2])

VolumeOffsetNoU(sz, a) == a[2] + (a[1] * sz[2]) + (a[3] * sz[2])
VolumeOffset(sz, a) == a[2] + (a[1] * sz[2]) + (a[3] * sz[1] * sz[2])

Offset(sz, a) ==
    CASE Len(sz) = 1 -> CurveOffset(sz, a)
      [] Len(sz) = 2 -> SurfaceOffset(sz, a)
      [] OTHER       -> VolumeOffset(sz, a)

(***************************************************************************)
(* Python list indexing: self._points[idx] with an integer idx.  An index  *)
(* in [-len, len) addresses a slot (a negative one counts from the end);   *)
(* any other raises IndexError.                                            *)
(***************************************************************************)
InList(lst, idx) == -Len(lst) <= idx /\ idx < Len(lst)

Slot(lst, idx) == IF idx >= 0 THEN idx + 1 ELSE Len(lst) + idx + 1

(***************************************************************************)
(* The heap after an operation: addresses renumbered in first-reach order  *)
(* (managers in order, then the slots of their lists in order).            *)
(***************************************************************************)
RECURSIVE Dedupe(_)
Dedupe(s) ==
    IF s = << >> THEN << >>
    ELSE LET d == Dedupe(SubSeq(s, 1, Len(s) - 1))
         IN  IF s[Len(s)] \in Range(d) THEN d ELSE Append(d, s[Len(s)])

RECURSIVE Flatten(_)
Flatten(ss) == IF ss = << >> THEN << >> ELSE Flatten(SubSeq(ss, 1, Len(ss) - 1)) \o ss[Len(ss)]

IndexOf(s, x) == CHOOSE i \in DOMAIN s : s[i] = x

Alive(p) == {m \in Mgrs : p[m] # 0}

NumAlive(p) == Cardinality(Alive(p))

ListOrder(p) == Dedupe([m \in 1..NumAlive(p) |-> p[m]])

PointOrder(lo, ls) == Dedupe(Flatten([i \in DOMAIN lo |-> ls[lo[i]]]))

Commit(p, ls, cs) ==
    LET lo == ListOrder(p)
    IN  LET po == PointOrder(lo, ls)
        IN  /\ pts' = [m \in Mgrs |-> IF p[m] = 0 THEN 0 ELSE IndexOf(lo, p[m])]
            /\ lists' = [i \in DOMAIN lo |-> [j \in DOMAIN ls[lo[i]] |-> IndexOf(po, ls[lo[i]][j])]]
            /\ coords' = [i \in DOMAIN po |-> cs[po[i]]]

\* A heap function extended or overwritten at one address.
With(f, k, v) == [x \in DOMAIN f \cup {k} |-> IF x = k THEN v ELSE f[x]]

\* Addresses no object has yet.
NewList == Len(lists) + 1
NewPoint(k) == Len(coords) + k

\* What a manager shows: the coordinate lists of its slots, in storage order.
ViewOf(m, p, ls, cs) == [i \in DOMAIN ls[p[m]] |-> cs[ls[p[m]][i]]]
View(m) == ViewOf(m, pts, lists, coords)

\* Point objects reachable from a manager.
PointsOf(m) == Range(lists[pts[m]])

(***************************************************************************)
(* The record of a call.                                                   *)
(***************************************************************************)
NoPt == [isSeq |-> FALSE, elems |-> << >>]

Call(op, m) ==
    [op |-> op, mgr |-> m, other |-> 0, args |-> << >>, pt |-> NoPt, off |-> 0,
     exc |-> "none", kind |-> "void", ret |-> << >>, seq |-> << >>]

(***************************************************************************)
(* get_ctrlpt of the three managers.  The result says what the call does:  *)
(* return the point object ref, return None, or raise exc.                 *)
(***************************************************************************)
Returned(ref) == [kind |-> "point", ref |-> ref, exc |-> "none"]
ReturnedNone == [kind |-> "None", ref |-> 0, exc |-> "none"]
Raised(e) == [kind |-> "raise", ref |-> 0, exc |-> e]

AbstractManager_get_ctrlpt(sz, a) == "none"

CurveManager_get_ctrlpt(sz, lst, a) ==
    IF AbstractManager_get_ctrlpt(sz, a) # "none" THEN Raised(AbstractManager_get_ctrlpt(sz, a))
    ELSE IF Len(a) < 1 THEN Raised("IndexError")
    ELSE LET idx == CurveOffset(sz, a)
         IN  IF InList(lst, idx) THEN Returned(lst[Slot(lst, idx)])
             ELSE Raised("IndexError")   \* the handler is for KeyError

SurfaceManager_get_ctrlpt(sz, lst, a) ==
    IF AbstractManager_get_ctrlpt(sz, a) # "none" THEN Raised(AbstractManager_get_ctrlpt(sz, a))
    ELSE IF Len(a) < 2 THEN Raised("IndexError")
    ELSE LET idx == SurfaceOffset(sz, a)
         IN  IF InList(lst, idx) THEN Returned(lst[Slot(lst, idx)])
             ELSE ReturnedNone

VolumeManager_get_ctrlpt(sz, lst, a) ==
    IF AbstractManager_get_ctrlpt(sz, a) # "none" THEN Raised(AbstractManager_get_ctrlpt(sz, a))
    ELSE IF Len(a) < 3 THEN Raised("IndexError")
    ELSE LET idx == VolumeOffset(sz, a)
         IN  IF InList(lst, idx) THEN Returned(lst[Slot(lst, idx)])
             ELSE ReturnedNone

get_ctrlpt(sz, lst, a) ==
    CASE Len(sz) = 1 -> CurveManager_get_ctrlpt(sz, lst, a)
      [] Len(sz) = 2 -> SurfaceManager_get_ctrlpt(sz, lst, a)
      [] OTHER       -> VolumeManager_get_ctrlpt(sz, lst, a)

(***************************************************************************)
(* set_ctrlpt.  The base method validates; the subclass computes the index *)
(* and writes.  The result: the exception raised ("none": the write was    *)
(* done) and the slot written (0: none).                                   *)
(***************************************************************************)
AbstractManager_set_ctrlpt(sz, pt, a) ==
    IF ~pt.isSeq THEN "Geomdl_pt"
    ELSE IF Len(a) # Len(sz) THEN "Geomdl_dims"
    ELSE "none"

Written(lst, idx) ==
    IF InList(lst, idx) THEN [exc |-> "none", slot |-> Slot(lst, idx)]
    ELSE [exc |-> "Geomdl_range", slot |-> 0]

CurveManager_set_ctrlpt(sz, lst, pt, a) ==
    IF AbstractManager_set_ctrlpt(sz, pt, a) # "none"
    THEN [exc |-> AbstractManager_set_ctrlpt(sz, pt, a), slot |-> 0]
    ELSE Written(lst, CurveOffset(sz, a))

SurfaceManager_set_ctrlpt(sz, lst, pt, a) ==
    IF AbstractManager_set_ctrlpt(sz, pt, a) # "none"
    THEN [exc |-> AbstractManager_set_ctrlpt(sz, pt, a), slot |-> 0]
    ELSE Written(lst, SurfaceOffset(sz, a))

VolumeManager_set_ctrlpt(sz, lst, pt, a) ==
    IF AbstractManager_set_ctrlpt(sz, pt, a) # "none"
    THEN [exc |-> AbstractManager_set_ctrlpt(sz, pt, a), slot |-> 0]
    ELSE Written(lst, VolumeOffset(sz, a))

set_ctrlpt(sz, lst, pt, a) ==
    CASE Len(sz) = 1 -> CurveManager_set_ctrlpt(sz, lst, pt, a)
      [] Len(sz) = 2 -> SurfaceManager_set_ctrlpt(sz, lst, pt, a)
      [] OTHER       -> VolumeManager_set_ctrlpt(sz, lst, pt, a)

(***************************************************************************)
(* Inputs of the calls.                                                    *)
(***************************************************************************)
\* Sizes a manager is constructed with: one to three positive integers.
Sizes ==
    {sz \in UNION {[1..k -> 1..MaxTotal] : k \in 1..3} : Product(sz) <= MaxTotal}

\* Multi-indices within the sizes.
ValidIdx(sz) == {a \in [1..Len(sz) -> 0..(Max(MaxTotal, MaxDim) - 1)] : \A i \in 1..Len(sz) : a[i] < sz[i]}

\* A component outside its range: just past the size, or the last counted
\* from the end.
OutVals(s) == {s, -1}

\* Multi-indices a caller passes: the valid ones, the first and the last
\* valid one with one component out of range, one whose offset lies before
\* the start of any list, and one with a component too few and one with a
\* component too many.
Corners(sz) == {[i \in 1..Len(sz) |-> 0], [i \in 1..Len(sz) |-> sz[i] - 1]}

ArgsFor(sz) ==
    ValidIdx(sz)
    \cup UNION {{[a EXCEPT ![i] = d] : a \in Corners(sz), d \in OutVals(sz[i])} : i \in 1..Len(sz)}
    \cup {[i \in 1..Len(sz) |-> IF i = Len(sz) THEN -MaxLen - 1 ELSE 0]}
    \cup {[i \in 1..(Len(sz) - 1) |-> 0], [i \in 1..(Len(sz) + 1) |-> 0]}

\* The pt argument: a list with some contents, or not a list or tuple at all.
PtInputs == {NoPt} \cup {[isSeq |-> TRUE, elems |-> c] : c \in Contents}

\* Integer indices of the item access.
ItemIdx == (0..MaxLen) \cup {-1, -MaxLen - 1}

(***************************************************************************)
(* __init__: self._size = sizes; self._points = []; self.reset()           *)
(***************************************************************************)
RECURSIVE Sum(_)
Sum(sz) == IF Len(sz) = 1 THEN sz[1] ELSE Sum(SubSeq(sz, 1, Len(sz) - 1)) + sz[Len(sz)]

PlaceholdersBySum(sz) == [i \in 1..Sum(sz) |-> << >>]
Placeholders(sz) == [i \in 1..Product(sz) |-> << >>]

InitManager(sz) ==
    /\ size = [m \in Mgrs |-> IF m = 1 THEN sz ELSE << >>]
    /\ pts = [m \in Mgrs |-> IF m = 1 THEN 1 ELSE 0]
    /\ iterIndex = [m \in Mgrs |-> -1]
    /\ lists = << [i \in 1..Len(Placeholders(sz)) |-> i] >>
    /\ coords = Placeholders(sz)
    /\ origin = [m \in Mgrs |-> [how |-> IF m = 1 THEN "new" ELSE "", from |-> 0,
                                  given |-> IF m = 1 THEN sz ELSE << >>]]
    /\ last = Call("init", 1)

LinIdle == linSize = <<1>> /\ linArgs = << >> /\ linOff = -1

Init == (\E sz \in Sizes : InitManager(sz)) /\ LinIdle

Storage(m) == lists[pts[m]]

\* len(manager)
ManagerLen(m) == Len(Storage(m))

(***************************************************************************)
(* manager.get_ctrlpt(args...)                                             *)
(***************************************************************************)
GetCtrlpt(m, a) ==
    LET r == get_ctrlpt(size[m], Storage(m), a)
    IN  /\ last' = [Call("get", m) EXCEPT !.args = a, !.exc = r.exc, !.kind = r.kind,
                        !.ret = IF r.kind = "point" THEN coords[r.ref] ELSE << >>]
        /\ UNCHANGED <<size, pts, iterIndex, lists, coords, origin, linSize, linArgs, linOff>>

(***************************************************************************)
(* manager.set_ctrlpt(pt, args...): the slot is made to refer to the       *)
(* caller's list object pt, a newly built list.                             *)
(***************************************************************************)
SetCtrlpt(m, pt, a) ==
    LET r == set_ctrlpt(size[m], Storage(m), pt, a)
    IN  /\ last' = [Call("set", m) EXCEPT !.args = a, !.pt = pt, !.exc = r.exc,
                        !.kind = IF r.exc = "none" THEN "void" ELSE "raise"]
        /\ IF r.exc = "none"
           THEN Commit(pts, [lists EXCEPT ![pts[m]][r.slot] = NewPoint(1)],
                       With(coords, NewPoint(1), pt.elems))
           ELSE UNCHANGED <<pts, lists, coords>>
        /\ UNCHANGED <<size, iterIndex, origin, linSize, linArgs, linOff>>

(***************************************************************************)
(* manager[idx]  and  manager[idx] = val                                   *)
(***************************************************************************)
GetItem(m, idx) ==
    /\ last' = IF InList(Storage(m), idx)
               THEN [Call("getitem", m) EXCEPT !.off = idx, !.kind = "point",
                        !.ret = coords[Storage(m)[Slot(Storage(m), idx)]]]
               ELSE [Call("getitem", m) EXCEPT !.off = idx, !.kind = "raise", !.exc = "IndexError"]
    /\ UNCHANGED <<size, pts, iterIndex, lists, coords, origin, linSize, linArgs, linOff>>

SetItem(m, idx, c) ==
    /\ last' = IF InList(Storage(m), idx)
               THEN [Call("setitem", m) EXCEPT !.off = idx, !.pt = [isSeq |-> TRUE, elems |-> c]]
               ELSE [Call("setitem", m) EXCEPT !.off = idx, !.pt = [isSeq |-> TRUE, elems |-> c],
                        !.kind = "raise", !.exc = "IndexError"]
    /\ IF InList(Storage(m), idx)
       THEN Commit(pts, [lists EXCEPT ![pts[m]][Slot(Storage(m), idx)] = NewPoint(1)],
                   With(coords, NewPoint(1), c))
       ELSE UNCHANGED <<pts, lists, coords>>
    /\ UNCHANGED <<size, iterIndex, origin, linSize, linArgs, linOff>>

(***************************************************************************)
(* manager.ctrlpts = value: _points is rebound to the caller's list, here  *)
(* a newly built list of n coordinate lists with contents c.               *)
(***************************************************************************)
NewPoints(n) == {NewPoint(i) : i \in 1..n}

Extended(cs, n, c) == [x \in DOMAIN cs \cup NewPoints(n) |-> IF x \in DOMAIN cs THEN cs[x] ELSE c]

CtrlptsWrite(m, n, c) ==
    /\ last' = [Call("ctrlpts", m) EXCEPT !.off = n]
    /\ Commit([pts EXCEPT ![m] = NewList],
              With(lists, NewList, [i \in 1..n |-> NewPoint(i)]),
              Extended(coords, n, c))
    /\ UNCHANGED <<size, iterIndex, origin, linSize, linArgs, linOff>>

(***************************************************************************)
(* manager.reset(): self._points[:] = [[] for _ in range(num)], the list   *)
(* object is kept and its contents replaced.                               *)
(***************************************************************************)
ResetSlotsKept(old, n) == [i \in 1..n |-> IF i <= Len(old) THEN old[i] ELSE NewPoint(i)]
ResetSlots(old, n) == [i \in 1..n |-> NewPoint(i)]

Reset(m) ==
    LET n == Len(Placeholders(size[m]))
    IN  /\ last' = [Call("reset", m) EXCEPT !.off = ManagerLen(m)]
        /\ Commit(pts, [lists EXCEPT ![pts[m]] = ResetSlots(Storage(m), n)],
                  Extended(coords, n, << >>))
        /\ UNCHANGED <<size, iterIndex, origin, linSize, linArgs, linOff>>

(***************************************************************************)
(* iter(manager), next(manager), reversed(manager)                         *)
(***************************************************************************)
Iter(m) ==
    /\ iterIndex' = [iterIndex EXCEPT ![m] = 0]
    /\ last' = Call("iter", m)
    /\ UNCHANGED <<size, pts, lists, coords, origin, linSize, linArgs, linOff>>

NextStepStuck(i) == i
NextStep(i) == i + 1

NextItem(m) ==
    /\ IF iterIndex[m] = -1
       THEN /\ last' = [Call("next", m) EXCEPT !.kind = "raise", !.exc = "AttributeError"]
            /\ UNCHANGED iterIndex
       ELSE IF InList(Storage(m), iterIndex[m])
       THEN /\ last' = [Call("next", m) EXCEPT !.off = iterIndex[m], !.kind = "point",
                            !.ret = coords[Storage(m)[Slot(Storage(m), iterIndex[m])]]]
            /\ iterIndex' = [iterIndex EXCEPT ![m] = NextStep(iterIndex[m])]
       ELSE /\ last' = [Call("next", m) EXCEPT !.off = iterIndex[m], !.kind = "raise",
                            !.exc = "StopIteration"]
            /\ UNCHANGED iterIndex
    /\ UNCHANGED <<size, pts, lists, coords, origin, linSize, linArgs, linOff>>

Reverse(s) == [i \in 1..Len(s) |-> s[Len(s) + 1 - i]]

Reversed(m) ==
    /\ last' = [Call("reversed", m) EXCEPT !.seq = Reverse(View(m))]
    /\ UNCHANGED <<size, pts, iterIndex, lists, coords, origin, linSize, linArgs, linOff>>

(***************************************************************************)
(* copy.copy(manager): the new object's __dict__ holds the same objects.   *)
(***************************************************************************)
NextMgr == NumAlive(pts) + 1

Copy(m) ==
    /\ NextMgr <= MaxMgr
    /\ size' = [size EXCEPT ![NextMgr] = size[m]]
    /\ iterIndex' = [iterIndex EXCEPT ![NextMgr] = iterIndex[m]]
    /\ origin' = [origin EXCEPT ![NextMgr] = [how |-> "copy", from |-> m, given |-> origin[m].given]]
    /\ last' = [Call("copy", m) EXCEPT !.other = NextMgr]
    /\ Commit([pts EXCEPT ![NextMgr] = pts[m]], lists, coords)
    /\ UNCHANGED <<linSize, linArgs, linOff>>

(***************************************************************************)
(* copy.deepcopy(manager): every attribute is deep-copied under one memo,  *)
(* so the copy has its own list and its own coordinate lists, and a        *)
(* coordinate list stored in several slots is copied once.                 *)
(***************************************************************************)
ListCopyOnly(lst) == lst
DeepCopied(lst) == [i \in DOMAIN lst |-> Len(coords) + lst[i]]

DeepCopy(m) ==
    LET new == DeepCopied(Storage(m))
        cs == [x \in DOMAIN coords \cup Range(new) |->
                  IF x \in DOMAIN coords THEN coords[x] ELSE coords[x - Len(coords)]]
    IN  /\ NextMgr <= MaxMgr
        /\ size' = [size EXCEPT ![NextMgr] = size[m]]
        /\ iterIndex' = [iterIndex EXCEPT ![NextMgr] = iterIndex[m]]
        /\ origin' = [origin EXCEPT ![NextMgr] = [how |-> "deepcopy", from |-> m, given |-> origin[m].given]]
        /\ last' = [Call("deepcopy", m) EXCEPT !.other = NextMgr]
        /\ Commit([pts EXCEPT ![NextMgr] = NewList], With(lists, NewList, new), cs)
        /\ UNCHANGED <<linSize, linArgs, linOff>>

(***************************************************************************)
(* The caller changes a coordinate list it got from the manager (item      *)
(* access and get_ctrlpt return the stored object itself): pt.append(e),   *)
(* or pt[0] = e.                                                           *)
(***************************************************************************)
Mutated(c, e) == IF c = << >> THEN Append(c, e) ELSE [c EXCEPT ![1] = e]

MutatePoint(m, i, e) ==
    /\ i \in DOMAIN Storage(m)
    /\ Mutated(coords[Storage(m)[i]], e) # coords[Storage(m)[i]]
    /\ last' = [Call("mutate", m) EXCEPT !.off = i - 1]
    /\ Commit(pts, lists, [coords EXCEPT ![Storage(m)[i]] = Mutated(@, e)])
    /\ UNCHANGED <<size, iterIndex, origin, linSize, linArgs, linOff>>

(***************************************************************************)
(* One manager under any sequence of reads and writes, well-formed or not. *)
(***************************************************************************)
Next ==
    \/ \E m \in Alive(pts) : \E a \in ArgsFor(size[m]) : GetCtrlpt(m, a)
    \/ \E m \in Alive(pts), pt \in PtInputs : \E a \in ArgsFor(size[m]) : SetCtrlpt(m, pt, a)
    \/ \E m \in Alive(pts), idx \in ItemIdx : GetItem(m, idx)
    \/ \E m \in Alive(pts), idx \in ItemIdx, c \in Contents : SetItem(m, idx, c)
    \/ \E m \in Alive(pts), n \in 0..MaxLen, c \in Contents : CtrlptsWrite(m, n, c)
    \/ \E m \in Alive(pts) : Reset(m)

Spec == Init /\ [][Next]_vars

(***************************************************************************)
(* One manager being iterated while its storage is written.                *)
(***************************************************************************)
NextIter ==
    \/ \E m \in Alive(pts) : Iter(m)
    \/ \E m \in Alive(pts) : NextItem(m)
    \/ \E m \in Alive(pts) : Reversed(m)
    \/ \E m \in Alive(pts), idx \in 0..(MaxLen - 1), c \in Contents : SetItem(m, idx, c)
    \/ \E m \in Alive(pts), n \in 0..MaxLen, c \in Contents : CtrlptsWrite(m, n, c)
    \/ \E m \in Alive(pts) : Reset(m)

SpecIter == Init /\ [][NextIter]_vars

(***************************************************************************)
(* A manager and its copies under the calls that change storage, with      *)
(* lists of numbers as points.                                             *)
(***************************************************************************)
NumberLists == {<< >>} \cup {<<e>> : e \in Numbers}

NextDup ==
    \/ \E m \in Alive(pts), c \in NumberLists : \E a \in ValidIdx(size[m]) :
          SetCtrlpt(m, [isSeq |-> TRUE, elems |-> c], a)
    \/ \E m \in Alive(pts), idx \in 0..(MaxLen - 1), c \in NumberLists : SetItem(m, idx, c)
    \/ \E m \in Alive(pts), n \in 0..MaxLen, c \in NumberLists : CtrlptsWrite(m, n, c)
    \/ \E m \in Alive(pts) : Reset(m)
    \/ \E m \in Alive(pts) : Copy(m)
    \/ \E m \in Alive(pts) : DeepCopy(m)
    \/ \E m \in Alive(pts), i \in 1..MaxLen, e \in Numbers : MutatePoint(m, i, e)

SpecDup == Init /\ [][NextDup]_vars

(***************************************************************************)
(* The linearization alone: sizes up to MaxDim in each dimension, and the  *)
(* offset of one multi-index after the other.                              *)
(***************************************************************************)
LinSizes == UNION {[1..k -> 1..MaxDim] : k \in 1..3}

LinInit == InitManager(<<1>>) /\ linSize \in LinSizes /\ linArgs = << >> /\ linOff = -1

Linearize(a) ==
    /\ linArgs' = a
    /\ linOff' = Offset(linSize, a)
    /\ UNCHANGED <<size, pts, iterIndex, lists, coords, origin, last, linSize>>

LinNext == \E a \in ValidIdx(linSize) : Linearize(a)

SpecLin == LinInit /\ [][LinNext]_vars

(***************************************************************************)
(* Properties.                                                             *)
(***************************************************************************)
\* The library's exceptions by what they report: a bad argument
\* ("'pt' argument should be a list or tuple", "Input dimensions are not
\* compatible with the geometry") or an index out of range.
InvalidArgument == {"Geomdl_pt", "Geomdl_dims"}
IndexOutOfRange == {"Geomdl_range"}

\* The receiver of the last call.
Rcv == last.mgr

\* An offset that addresses a slot of storage of length n.
InBounds(off, n) == 0 <= off /\ off < n

\* What get_ctrlpt gives in a heap: the kind of result and the coordinates.
GetValue(sz, lst, cs, a) ==
    LET r == get_ctrlpt(sz, lst, a)
    IN  [kind |-> r.kind, exc |-> r.exc, val |-> IF r.kind = "point" THEN cs[r.ref] ELSE << >>]

\* C1: for every arity and all positive sizes, the linearization maps the
\* valid multi-indices one-to-one and onto [0, total), total the product of
\* the sizes.
C1_Bijection ==
    LET V == ValidIdx(linSize)
        total == Product(linSize)
    IN  /\ \A a, b \in V : a # b => Offset(linSize, a) # Offset(linSize, b)
        /\ {Offset(linSize, a) : a \in V} = 0..(total - 1)
        /\ linOff # -1 => linOff \in 0..(total - 1)

C1_Witness == linSize = <<2, 3, 2>> /\ linArgs = <<1, 2, 1>> /\ linOff = 11

\* C2: in a state whose storage length is the product of the sizes,
\* set_ctrlpt(pt, m) with a valid multi-index m succeeds, get_ctrlpt(m) then
\* returns pt, get_ctrlpt(m') returns what it returned before for every
\* other valid m', and exactly the slot at the offset of m has changed.
C2_RoundTrip ==
    [][ LET m == last'.mgr
            a == last'.args
        IN  (/\ last'.op = "set"
             /\ last'.pt.isSeq
             /\ a \in ValidIdx(size[m])
             /\ ManagerLen(m) = Product(size[m]))
            => /\ last'.exc = "none"
               /\ GetValue(size'[m], lists'[pts'[m]], coords', a)
                    = [kind |-> "point", exc |-> "none", val |-> last'.pt.elems]
               /\ \A b \in ValidIdx(size[m]) \ {a} :
                    GetValue(size'[m], lists'[pts'[m]], coords', b)
                      = GetValue(size[m], lists[pts[m]], coords, b)
               /\ \A i \in 1..ManagerLen(m) :
                    i # Offset(size[m], a) + 1
                      => ViewOf(m, pts', lists', coords')[i] = View(m)[i]
      ]_vars

C2_Witness ==
    /\ last.op = "set" /\ last.exc = "none"
    /\ size[1] = <<1, 2>> /\ last.args = <<0, 1>> /\ last.pt.elems = <<"1">>
    /\ View(1) = << << >>, <<"1">> >>

\* C3: for every arity, get_ctrlpt with a multi-index whose offset is outside
\* the storage bounds returns None and raises nothing.
C3_OutOfRangeReadReturnsNone ==
    (/\ last.op = "get"
     /\ Len(last.args) = Len(size[Rcv])
     /\ ~InBounds(Offset(size[Rcv], last.args), ManagerLen(Rcv)))
    => last.kind = "None" /\ last.exc = "none"

\* C4: for every arity, set_ctrlpt with a well-formed point and a multi-index
\* whose offset is not in [0, total) raises "Index is out of range", and
\* nothing is written.
C4_OutOfRangeWriteRejected ==
    (/\ last.op = "set"
     /\ last.pt.isSeq
     /\ Len(last.args) = Len(size[Rcv])
     /\ ~InBounds(Offset(size[Rcv], last.args), Product(size[Rcv])))
    => last.exc \in IndexOutOfRange

\* C6: get_ctrlpt and set_ctrlpt both reject a call whose number of
\* multi-index components differs from the arity, with the library's
\* exception, before any offset is computed.
C6_ArityChecked ==
    (/\ last.op \in {"get", "set"}
     /\ Len(last.args) # Len(size[Rcv]))
    => last.exc \in InvalidArgument

\* A point as the contract wants it: a non-empty sequence of numbers.
WellFormed(pt) == pt.isSeq /\ pt.elems # << >> /\ Range(pt.elems) \subseteq Numbers

\* C9: set_ctrlpt rejects a point that is not a non-empty sequence of
\* numbers (not a sequence, empty, or holding a non-number) with the
\* library's exception, and writes nothing.
C9_PointValidated ==
    (last.op = "set" /\ ~WellFormed(last.pt)) => last.exc \in InvalidArgument

\* C10: a freshly constructed manager has product-of-sizes slots, all empty;
\* reset never fails, leaves the sizes as given at construction, and leaves
\* exactly product-of-sizes empty placeholders, whatever the storage held
\* and however long it was.
C10_FreshAndReset ==
    \A m \in Alive(pts) :
        /\ size[m] = origin[m].given
        /\ (last.op \in {"init", "reset"} /\ Rcv = m)
             => /\ last.exc = "none"
                /\ ManagerLen(m) = Product(size[m])
                /\ \A i \in 1..ManagerLen(m) : View(m)[i] = << >>

\* A reset of a storage that had another length than the product.
C10_Witness ==
    /\ last.op = "reset" /\ last.off # Product(size[1])
    /\ size[1] = <<2, 1>> /\ View(1) = << << >>, << >> >>

C5_LengthIsProduct ==
    \A m \in Alive(pts) :
        ManagerLen(m) = Product(size[m]) /\ size[m] = origin[m].given

Mismatch(m, p, ls, sz) == Len(ls[p[m]]) # Product(sz[m])

\* C5 amended: the sizes are always those given at construction, and the
\* storage length is the product of the sizes unless a whole-collection write
\* has set it otherwise: a length other than the product appears only by a
\* ctrlpts write on that manager, is inherited by a copy, and is ended by
\* the next reset.
C5_LengthBrokenOnlyByBulkWrite ==
    [][ \A m \in Alive(pts') :
          /\ size'[m] = origin'[m].given
          /\ Mismatch(m, pts', lists', size')
               => \/ last'.op = "ctrlpts" /\ last'.mgr = m
                  \/ /\ m \in Alive(pts)
                     /\ Mismatch(m, pts, lists, size)
                     /\ ~(last'.op = "reset" /\ pts[last'.mgr] = pts[m])
                  \/ /\ m \notin Alive(pts)
                     /\ last'.op \in {"copy", "deepcopy"}
                     /\ Mismatch(last'.mgr, pts, lists, size)
      ]_vars

C5_Witness ==
    /\ last.op = "ctrlpts" /\ Mismatch(Rcv, pts, lists, size)
    /\ NumAlive(pts) = 2

\* Managers a and b hold no object in common.
Separate(a, b) == pts[a] # pts[b] /\ PointsOf(a) \cap PointsOf(b) = {}

\* C7: a deep copy has the contents of its original and shares no object
\* with it, and no call through the one changes a slot of the other; a
\* shallow copy refers to the storage list of its original, and a
\* set_ctrlpt, item write, reset or change of a stored point through either
\* is seen through the other and leaves them on the same list.
C7_Duplication ==
    [][ \A d \in Alive(pts') :
          LET o == origin'[d].from
          IN  /\ (last'.op = "deepcopy" /\ last'.other = d)
                   => /\ ViewOf(d, pts', lists', coords') = View(o)
                      /\ pts'[d] # pts'[o]
                      /\ Range(lists'[pts'[d]]) \cap Range(lists'[pts'[o]]) = {}
              /\ (origin'[d].how = "deepcopy" /\ d \in Alive(pts))
                   => /\ last'.mgr = d => ViewOf(o, pts', lists', coords') = View(o)
                      /\ last'.mgr = o => ViewOf(d, pts', lists', coords') = View(d)
              /\ (last'.op = "copy" /\ last'.other = d) => pts'[d] = pts'[o]
              /\ (/\ origin'[d].how = "copy" /\ d \in Alive(pts) /\ pts[d] = pts[o]
                  /\ last'.mgr \in {d, o}
                  /\ last'.op \in {"set", "setitem", "reset", "mutate"})
                   => LET x == IF last'.mgr = d THEN o ELSE d   \* the other one
                      IN  /\ pts'[d] = pts'[o]
                          /\ last'.op = "reset"
                               => ViewOf(x, pts', lists', coords')
                                    = [i \in 1..Product(size[x]) |-> << >>]
                          /\ (last'.op \in {"set", "setitem"} /\ last'.exc = "none")
                               => ViewOf(x, pts', lists', coords')
                                      [IF last'.op = "set"
                                       THEN Offset(size[x], last'.args) + 1
                                       ELSE last'.off + 1]
                                    = last'.pt.elems
      ]_vars

\* A stored point changed through a deep copy, the original keeping its own.
C7_Witness ==
    /\ last.op = "mutate" /\ origin[Rcv].how = "deepcopy"
    /\ View(Rcv) # View(origin[Rcv].from)
    /\ Separate(Rcv, origin[Rcv].from)

====
